---- MODULE Spec2Model ----
(***************************************************************************)
(* uniOS bootstrap: the Multiboot header and the entry trampoline of       *)
(* loader.s, the constructor invoker and the entry routine of kernel.cpp,  *)
(* and the VGA text output they use.                                       *)
(***************************************************************************)
EXTENDS Integers, Sequences, FiniteSets, TLC

VARIABLES
    pc,                  \* position of the single thread of control
    eax, ebx, esp,       \* the registers loader.s names
    iflag,               \* EFLAGS.IF, the interrupt-enable flag
    mem,                 \* stack memory written so far: address -> 32-bit word
    handoff,             \* what the bootloader left in EAX, EBX and ESP
    loads,               \* the addresses the processor has read a word from
    args,                \* kernelMain's parameters, <<>> before it is entered
    str, i,              \* printf's argument (null-terminated) and its index
    VideoMemory,         \* the 16-bit cells at 0xb8000
    printfCalls,         \* calls of printf so far
    printfRet,           \* where the running printf returns to
    prior,               \* the cells as they were when printf was called
    writes,              \* the cells the running printf has stored to, in order
    said,                \* the arguments of the calls of printf so far, in order
    image,               \* the linked image: the addresses linker.ld assigns
    ip,                  \* the linker's position in its statement list
    dot,                 \* the linker's location counter
    inputs,              \* the input sections of the objects, in link order
    placed,              \* input section -> the address the linker gave it
    syms,                \* the symbols the script has assigned so far
    table,               \* the table's slots: address -> function pointer
    cur,                 \* callConstructors' cursor i
    invoked,             \* the invocations made: <<slot address, function>>
    reads,               \* the slot addresses callConstructors dereferenced
    ccRuns,              \* completed runs of callConstructors
    order,               \* the routines entered, in order
    flags,               \* the FLAGS word the header is assembled with
    section              \* the bytes of section .multiboot emitted so far

vars == <<pc, eax, ebx, esp, iflag, mem, handoff, loads, args, str, i,
          VideoMemory, printfCalls, printfRet, prior, writes, said, image, ip, dot,
          inputs, placed, syms, table, cur, invoked, reads, ccRuns, order,
          flags, section>>

cpuVars    == <<eax, ebx, esp, iflag, mem, handoff, loads, args>>
printfVars == <<str, i, VideoMemory, printfCalls, printfRet, prior, writes, said>>
linkVars   == <<image, ip, dot, inputs, placed, syms>>
ctorVars   == <<table, cur, invoked, reads, ccRuns>>
headerVars == <<flags, section>>

(***************************************************************************)
(* Machine arithmetic.  A 32-bit word is the pair <<high half, low half>>  *)
(* of its 16-bit halves; addresses of the image are plain integers.        *)
(***************************************************************************)
W16 == 65536           \* 2^16
W8  == 256             \* 2^8

\* the 32-bit word of an integer 0 <= n < 2^31
FromInt(n) == <<n \div W16, n % W16>>

\* a + b and -a modulo 2^32
Add32(a, b) ==
    LET lo == a[2] + b[2]
    IN  <<(a[1] + b[1] + lo \div W16) % W16, lo % W16>>
Neg32(a) ==
    IF a[2] = 0 THEN <<(W16 - a[1]) % W16, 0>>
    ELSE <<W16 - 1 - a[1], W16 - a[2]>>
Sub32(a, b) == Add32(a, Neg32(b))
\* a <= b, unsigned
Le32(a, b) == a[1] < b[1] \/ (a[1] = b[1] /\ a[2] <= b[2])

\* | and & on the low n bits of two's complement integers (\div rounds down,
\* so a negative operand contributes its two's complement bits)
RECURSIVE BitOrN(_, _, _)
BitOrN(a, b, n) ==
    IF n = 0 THEN 0
    ELSE (IF a % 2 = 1 \/ b % 2 = 1 THEN 1 ELSE 0)
         + 2 * BitOrN(a \div 2, b \div 2, n - 1)

RECURSIVE BitAndN(_, _, _)
BitAndN(a, b, n) ==
    IF n = 0 THEN 0
    ELSE (IF a % 2 = 1 /\ b % 2 = 1 THEN 1 ELSE 0)
         + 2 * BitAndN(a \div 2, b \div 2, n - 1)

BitOr32(a, b) == <<BitOrN(a[1], b[1], 16), BitOrN(a[2], b[2], 16)>>
\* 1 << n as a 32-bit word
Bit32(n) == IF n < 16 THEN <<0, 2^n>> ELSE <<2^(n - 16), 0>>

(***************************************************************************)
(* The Multiboot header of loader.s                                        *)
(***************************************************************************)
MAGIC == <<7085, 45058>>                  \* 0x1badb002
FLAGS == BitOr32(Bit32(0), Bit32(1))      \* (1<<0 | 1<<1)

CHECKSUM_NoParens == Add32(Neg32(MAGIC), flags)
CHECKSUM == Neg32(Add32(MAGIC, flags))

\* .long: one 32-bit word, least significant byte first
Long_BigEndian(w) == <<w[1] \div W8, w[1] % W8, w[2] \div W8, w[2] % W8>>
Long(w) == <<w[2] % W8, w[2] \div W8, w[1] % W8, w[1] \div W8>>

\* the k-th 32-bit little-endian word of a byte sequence, k = 0, 1, ...
Word(bytes, k) ==
    <<bytes[4 * k + 3] + W8 * bytes[4 * k + 4],
      bytes[4 * k + 1] + W8 * bytes[4 * k + 2]>>

\* the FLAGS words a header is assembled with: every combination of these bits
FlagBits   == {0, 1, 2, 16, 27, 29, 30, 31}
RECURSIVE OrBits(_)
OrBits(S) ==
    IF S = {} THEN <<0, 0>>
    ELSE LET b == CHOOSE x \in S : TRUE IN BitOr32(Bit32(b), OrBits(S \ {b}))
FlagValues == {OrBits(S) : S \in SUBSET FlagBits}

\* the assembler, one directive of section .multiboot at a time
LongMAGIC ==
    /\ pc = "long_MAGIC"
    /\ section' = section \o Long(MAGIC)
    /\ pc' = "long_FLAGS"
    /\ UNCHANGED <<cpuVars, printfVars, ctorVars, linkVars, order, flags>>

LongFLAGS ==
    /\ pc = "long_FLAGS"
    /\ section' = section \o Long(flags)
    /\ pc' = "long_CHECKSUM"
    /\ UNCHANGED <<cpuVars, printfVars, ctorVars, linkVars, order, flags>>

LongCHECKSUM ==
    /\ pc = "long_CHECKSUM"
    /\ section' = section \o Long(CHECKSUM)
    /\ pc' = "assembled"
    /\ UNCHANGED <<cpuVars, printfVars, ctorVars, linkVars, order, flags>>

(***************************************************************************)
(* The linked image (linker.ld, objects = loader.o kernel.o)               *)
(***************************************************************************)
LOAD_ADDRESS == 1048576                   \* . = 0x00100000
STACK_SIZE   == 2 * 1024 * 1024           \* .space 2*1024*1024
SLOT         == 4                         \* sizeof(constructor) with -m32
HEADER_SIZE  == 12                        \* three .long words

\* offsets of the instructions of loader.s from the label loader (i386
\* encodings: mov $imm32,%esp 5 bytes; push %reg 1; call rel32 5; cli 1;
\* hlt 1; jmp rel8 2)
CodeOffset ==
    [loader |-> 0, push_eax |-> 5, push_ebx |-> 6, call_kernelMain |-> 7,
     _stop |-> 12, hlt |-> 13, jmp_stop |-> 14]
LOADER_TEXT == 16

\* sizes of what kernel.o and the constructor sections contribute
KernelTextSizes == {64, 4096}
DataSizes       == {0, 8}
MaxCtors        == 2

\* .text { *(.multiboot) *(.text*) *(.rodata*) }  .data { start_ctors = .;
\* KEEP(*(.init_array)) ... end_ctors = .; *(.data*) }  .bss { *(.bss*) }
Link(kernelText, nCtors, dataSize) ==
    LET text     == LOAD_ADDRESS
        loaderAt == text + HEADER_SIZE
        textEnd  == loaderAt + LOADER_TEXT + kernelText
        ctors    == textEnd
        ctorsEnd == ctors + SLOT * nCtors
        bss      == ctorsEnd + dataSize
    IN  [multiboot    |-> text,
         loader       |-> loaderAt,
         start_ctors  |-> ctors,
         end_ctors    |-> ctorsEnd,
         bss          |-> bss,
         kernel_stack |-> bss + STACK_SIZE]

Images == {Link(t, n, d) : t \in KernelTextSizes, n \in 0..MaxCtors, d \in DataSizes}

\* the linker is not running: the image is given
NoLink ==
    /\ ip = 0
    /\ dot = 0
    /\ inputs = <<>>
    /\ placed = <<>>
    /\ syms = <<>>

start_ctors  == image.start_ctors
end_ctors    == image.end_ctors
kernel_stack == image.kernel_stack

\* address of an instruction of loader.s, and the instruction at an address
AddrOf(label) == image.loader + CodeOffset[label]
LabelAt(w) ==
    IF \E l \in DOMAIN CodeOffset : FromInt(AddrOf(l)) = w
    THEN CHOOSE l \in DOMAIN CodeOffset : FromInt(AddrOf(l)) = w
    ELSE "wild"

\* the constructors a table may point to, and the slots of an image's table
CtorFns == {"ctorA", "ctorB"}
SlotsOf(img) ==
    {img.start_ctors + SLOT * k : k \in 0..((img.end_ctors - img.start_ctors) \div SLOT) - 1}
TablesOf(img) == [SlotsOf(img) -> CtorFns]

(***************************************************************************)
(* The boot trampoline of loader.s                                         *)
(***************************************************************************)
\* a 32-bit load; .bss is zero-filled by the bootloader
Read(a) == IF a \in DOMAIN mem THEN mem[a] ELSE <<0, 0>>

\* push: ESP drops by 4, then the word is stored at the new ESP
PushState_Word(v) ==
    /\ esp' = Sub32(esp, FromInt(2))
    /\ mem' = (Sub32(esp, FromInt(2)) :> v) @@ mem
PushState(v) ==
    /\ esp' = Sub32(esp, FromInt(4))
    /\ mem' = (Sub32(esp, FromInt(4)) :> v) @@ mem

\* loader: mov $kernel_stack, %esp
MovEsp_Bottom ==
    /\ pc = "loader"
    /\ esp' = FromInt(image.bss)
    /\ pc' = "push_eax"
    /\ UNCHANGED <<eax, ebx, iflag, mem, handoff, loads, args, printfVars, ctorVars,
                   linkVars, order, headerVars>>
MovEsp ==
    /\ pc = "loader"
    /\ esp' = FromInt(kernel_stack)
    /\ pc' = "push_eax"
    /\ UNCHANGED <<eax, ebx, iflag, mem, handoff, loads, args, printfVars, ctorVars,
                   linkVars, order, headerVars>>

\* push %eax
PushEax_Ebx ==
    /\ pc = "push_eax"
    /\ PushState(ebx)
    /\ pc' = "push_ebx"
    /\ UNCHANGED <<eax, ebx, iflag, handoff, loads, args, printfVars, ctorVars, linkVars,
                   order, headerVars>>
PushEax ==
    /\ pc = "push_eax"
    /\ PushState(eax)
    /\ pc' = "push_ebx"
    /\ UNCHANGED <<eax, ebx, iflag, handoff, loads, args, printfVars, ctorVars, linkVars,
                   order, headerVars>>

\* push %ebx
PushEbx ==
    /\ pc = "push_ebx"
    /\ PushState(ebx)
    /\ pc' = "call_kernelMain"
    /\ UNCHANGED <<eax, ebx, iflag, handoff, loads, args, printfVars, ctorVars, linkVars,
                   order, headerVars>>

\* call kernelMain: pushes the address of the next instruction, _stop
CallKernelMain_Sti ==
    /\ pc = "call_kernelMain"
    /\ PushState(FromInt(AddrOf("_stop")))
    /\ iflag' = 1
    /\ pc' = "kernelMain"
    /\ UNCHANGED <<eax, ebx, handoff, loads, args, printfVars, ctorVars,
                   linkVars, order, headerVars>>
CallKernelMain ==
    /\ pc = "call_kernelMain"
    /\ PushState(FromInt(AddrOf("_stop")))
    /\ pc' = "kernelMain"
    /\ UNCHANGED <<eax, ebx, iflag, handoff, loads, args, printfVars, ctorVars, linkVars,
                   order, headerVars>>

\* _stop: cli
Cli ==
    /\ pc = "_stop"
    /\ iflag' = 0
    /\ pc' = "hlt"
    /\ UNCHANGED <<eax, ebx, esp, mem, handoff, loads, args, printfVars, ctorVars,
                   linkVars, order, headerVars>>

\* hlt: the processor stops fetching
Hlt ==
    /\ pc = "hlt"
    /\ pc' = "halted"
    /\ UNCHANGED <<cpuVars, printfVars, ctorVars, linkVars, order, headerVars>>

\* a wake-up from hlt resumes at the instruction after it
Wake ==
    /\ pc = "halted"
    /\ pc' = "jmp_stop"
    /\ UNCHANGED <<cpuVars, printfVars, ctorVars, linkVars, order, headerVars>>

\* jmp _stop
JmpStop_FallThrough ==
    /\ pc = "jmp_stop"
    /\ pc' = "wild"
    /\ UNCHANGED <<cpuVars, printfVars, ctorVars, linkVars, order, headerVars>>
JmpStop ==
    /\ pc = "jmp_stop"
    /\ pc' = "_stop"
    /\ UNCHANGED <<cpuVars, printfVars, ctorVars, linkVars, order, headerVars>>

(***************************************************************************)
(* kernel.cpp: printf                                                      *)
(***************************************************************************)
VideoCells == 42                 \* the cells of the buffer that are modelled
Cells      == 0..(VideoCells - 1)

\* char is signed with g++ on i386: the integer promotion of a char
CharToInt(c) == IF c >= 128 THEN c - W8 ELSE c

\* (VideoMemory[i] & 0xFF00) | str[i], stored to a uint16_t cell
\* (the int result's low 16 bits)
PutChar_Overwrite(cell, c) == BitOrN(0, CharToInt(c), 16)
PutChar(cell, c) == BitOrN(BitAndN(cell, 65280, 16), CharToInt(c), 16)

\* str[i] of the C string, i counted from 0
CharAt(s, k) == s[k + 1]

\* one iteration of: for (int i = 0; str[i] != '\0'; i++) VideoMemory[i] = ...
PrintfStep_NoInc ==
    /\ pc = "printf"
    /\ CharAt(str, i) # 0
    /\ VideoMemory' = [VideoMemory EXCEPT ![i] = PutChar(VideoMemory[i], CharAt(str, i))]
    /\ writes' = IF writes # <<>> /\ writes[Len(writes)] = i THEN writes
                 ELSE Append(writes, i)
    /\ UNCHANGED <<pc, cpuVars, str, i, printfCalls, printfRet, prior, said, ctorVars, linkVars,
                   order, headerVars>>
PrintfStep_Shifted ==
    /\ pc = "printf"
    /\ CharAt(str, i) # 0
    /\ VideoMemory' = [VideoMemory EXCEPT ![i + 1] = PutChar(VideoMemory[i + 1], CharAt(str, i))]
    /\ writes' = Append(writes, i + 1)
    /\ i' = i + 1
    /\ UNCHANGED <<pc, cpuVars, str, printfCalls, printfRet, prior, said, ctorVars,
                   linkVars, order, headerVars>>
PrintfStep ==
    /\ pc = "printf"
    /\ CharAt(str, i) # 0
    /\ VideoMemory' = [VideoMemory EXCEPT ![i] = PutChar(VideoMemory[i], CharAt(str, i))]
    /\ writes' = Append(writes, i)
    /\ i' = i + 1
    /\ UNCHANGED <<pc, cpuVars, str, printfCalls, printfRet, prior, said, ctorVars, linkVars,
                   order, headerVars>>

\* the loop ends at the terminating null and printf returns
PrintfReturn_TailCall ==
    /\ pc = "printf"
    /\ CharAt(str, i) = 0
    /\ pc' = LabelAt(Read(esp))
    /\ esp' = Add32(esp, FromInt(4))
    /\ UNCHANGED <<eax, ebx, iflag, mem, handoff, loads, args, printfVars, ctorVars,
                   linkVars, order, headerVars>>
PrintfReturn ==
    /\ pc = "printf"
    /\ CharAt(str, i) = 0
    /\ pc' = printfRet
    /\ UNCHANGED <<cpuVars, printfVars, ctorVars, linkVars, order, headerVars>>

(***************************************************************************)
(* kernel.cpp: kernelMain                                                  *)
(***************************************************************************)
\* "Hello World --- http://www.AlgorithMan.de"
Message ==
    <<72, 101, 108, 108, 111, 32, 87, 111, 114, 108, 100, 32, 45, 45, 45, 32,
      104, 116, 116, 112, 58, 47, 47, 119, 119, 119, 46, 65, 108, 103, 111,
      114, 105, 116, 104, 77, 97, 110, 46, 100, 101>>

\* entry: with cdecl (-m32) the return address is at ESP, the first parameter
\* at ESP+4, the second at ESP+8
KernelMainEntry ==
    /\ pc = "kernelMain"
    /\ args' = <<Read(Add32(esp, FromInt(4))), Read(Add32(esp, FromInt(8)))>>
    /\ loads' = loads \cup {Add32(esp, FromInt(4)), Add32(esp, FromInt(8))}
    /\ order' = Append(order, "kernelMain")
    /\ pc' = "kernelMain_printf"
    /\ UNCHANGED <<eax, ebx, esp, iflag, mem, handoff, printfVars, ctorVars,
                   linkVars, headerVars>>

\* printf("Hello World --- http://www.AlgorithMan.de");
CallPrintf_IfMagic ==
    /\ pc = "kernelMain_printf"
    /\ IF args[2] = <<11181, 45058>>
       THEN /\ str' = Message \o <<0>>
            /\ i' = 0
            /\ printfCalls' = printfCalls + 1
            /\ printfRet' = "while1"
            /\ prior' = VideoMemory
            /\ writes' = <<>>
            /\ said' = Append(said, str')
            /\ pc' = "printf"
       ELSE /\ pc' = "while1"
            /\ UNCHANGED <<str, i, printfCalls, printfRet, prior, writes, said>>
    /\ UNCHANGED <<cpuVars, VideoMemory, ctorVars, linkVars, order, headerVars>>
CallPrintf_UninitI ==
    /\ pc = "kernelMain_printf"
    /\ str' = Message \o <<0>>
    /\ i' \in {0, 1}
    /\ printfCalls' = printfCalls + 1
    /\ printfRet' = "while1"
    /\ prior' = VideoMemory
    /\ writes' = <<>>
    /\ said' = Append(said, str')
    /\ pc' = "printf"
    /\ UNCHANGED <<cpuVars, VideoMemory, ctorVars, linkVars, order, headerVars>>
CallPrintf ==
    /\ pc = "kernelMain_printf"
    /\ str' = Message \o <<0>>
    /\ i' = 0
    /\ printfCalls' = printfCalls + 1
    /\ printfRet' = "while1"
    /\ prior' = VideoMemory
    /\ writes' = <<>>
    /\ said' = Append(said, str')
    /\ pc' = "printf"
    /\ UNCHANGED <<cpuVars, VideoMemory, ctorVars, linkVars, order, headerVars>>

\* while(1);
While1_Returns ==
    /\ pc = "while1"
    /\ pc' = LabelAt(Read(esp))
    /\ esp' = Add32(esp, FromInt(4))
    /\ UNCHANGED <<eax, ebx, iflag, mem, handoff, loads, args, printfVars, ctorVars,
                   linkVars, order, headerVars>>
While1 ==
    /\ pc = "while1"
    /\ pc' = "while1"
    /\ UNCHANGED <<cpuVars, printfVars, ctorVars, linkVars, order, headerVars>>

(***************************************************************************)
(* The boot: from the bootloader's hand-off on                             *)
(***************************************************************************)
MagicValues  == {<<11181, 45058>>, <<0, 0>>, <<65535, 65535>>}  \* EAX: 0x2BADB002, ...
InfoPointers == {<<1, 0>>, <<0, 0>>, <<65535, 65535>>}          \* EBX: 0x10000, ...
EntryESPs    == {<<0, 0>>, <<0, 31744>>}      \* ESP is undefined at hand-off
InitialCells == {1824, 20010}                 \* 0x0720, 0x4E2A

InitBoot ==
    /\ pc = "loader"
    /\ eax \in MagicValues
    /\ ebx \in InfoPointers
    /\ esp \in EntryESPs
    /\ iflag = 0
    /\ mem = [a \in {} |-> <<0, 0>>]
    /\ handoff = [eax |-> eax, ebx |-> ebx, esp |-> esp]
    /\ loads = {}
    /\ args = <<>>
    /\ str = <<0>>
    /\ i = 0
    /\ \E c \in InitialCells : VideoMemory = [k \in Cells |-> c]
    /\ prior = VideoMemory
    /\ writes = <<>>
    /\ said = <<>>
    /\ printfCalls = 0
    /\ printfRet = "none"
    /\ NoLink
    /\ image \in Images
    /\ table \in TablesOf(image)
    /\ cur = start_ctors
    /\ invoked = <<>>
    /\ reads = {}
    /\ ccRuns = 0
    /\ order = <<"loader">>
    /\ flags = FLAGS
    /\ section = Long(MAGIC) \o Long(flags) \o Long(CHECKSUM)

NextBoot ==
    \/ MovEsp
    \/ PushEax
    \/ PushEbx
    \/ CallKernelMain
    \/ KernelMainEntry
    \/ CallPrintf
    \/ PrintfStep
    \/ PrintfReturn
    \/ While1

Spec == InitBoot /\ [][NextBoot]_vars

\* one thread of control, no preemption: the processor always takes its next step
FairSpec == Spec /\ WF_vars(NextBoot)

(***************************************************************************)
(* An entry routine that returns: ret pops the return address that call    *)
(* pushed and continues there (README, Boot Process, step 10).  Such a     *)
(* routine may have left interrupts enabled or disabled.                   *)
(***************************************************************************)
KernelMainRet ==
    /\ pc = "while1"
    /\ pc' = LabelAt(Read(esp))
    /\ esp' = Add32(esp, FromInt(4))
    /\ iflag' \in {0, 1}
    /\ UNCHANGED <<eax, ebx, mem, handoff, loads, args, printfVars, ctorVars,
                   linkVars, order, headerVars>>

NextRet ==
    \/ MovEsp
    \/ PushEax
    \/ PushEbx
    \/ CallKernelMain
    \/ KernelMainEntry
    \/ CallPrintf
    \/ PrintfStep
    \/ PrintfReturn
    \/ KernelMainRet
    \/ Cli
    \/ Hlt
    \/ Wake
    \/ JmpStop

SpecRet == InitBoot /\ [][NextRet]_vars

(***************************************************************************)
(* kernel.cpp: callConstructors                                            *)
(***************************************************************************)
\* constructor* i = &start_ctors
CtorsEnter ==
    /\ pc = "callConstructors"
    /\ cur' = start_ctors
    /\ order' = Append(order, "callConstructors")
    /\ pc' = "ctors_test"
    /\ UNCHANGED <<cpuVars, printfVars, table, invoked, reads, ccRuns, linkVars,
                   headerVars>>

\* i != &end_ctors holds: (*i)();
CtorsCall_DerefOnly ==
    /\ pc = "ctors_test"
    /\ cur # end_ctors
    /\ reads' = reads \cup {cur}
    /\ pc' = "ctors_inc"
    /\ UNCHANGED <<cpuVars, printfVars, table, cur, invoked, ccRuns, linkVars,
                   order, headerVars>>
CtorsCall_PastEnd ==
    /\ pc = "ctors_test"
    /\ cur # end_ctors
    /\ reads' = reads \cup {cur + SLOT}
    /\ invoked' = Append(invoked,
           <<cur, IF cur + SLOT \in DOMAIN table THEN table[cur + SLOT] ELSE "wild">>)
    /\ pc' = "ctors_inc"
    /\ UNCHANGED <<cpuVars, printfVars, table, cur, ccRuns, linkVars, order,
                   headerVars>>
CtorsCall ==
    /\ pc = "ctors_test"
    /\ cur # end_ctors
    /\ reads' = reads \cup {cur}
    /\ invoked' = Append(invoked, <<cur, table[cur]>>)
    /\ pc' = "ctors_inc"
    /\ UNCHANGED <<cpuVars, printfVars, table, cur, ccRuns, linkVars, order,
                   headerVars>>

\* i++
CtorsInc ==
    /\ pc = "ctors_inc"
    /\ cur' = cur + SLOT
    /\ pc' = "ctors_test"
    /\ UNCHANGED <<cpuVars, printfVars, table, invoked, reads, ccRuns, linkVars,
                   order, headerVars>>

\* i == &end_ctors: the loop ends and callConstructors returns
CtorsReturn ==
    /\ pc = "ctors_test"
    /\ cur = end_ctors
    /\ ccRuns' = ccRuns + 1
    /\ pc' = "ctors_returned"
    /\ UNCHANGED <<cpuVars, printfVars, table, cur, invoked, reads, linkVars,
                   order, headerVars>>

\* the state outside the part of the program a specification exercises
Quiet ==
    /\ eax = <<0, 0>>
    /\ ebx = <<0, 0>>
    /\ esp = <<0, 0>>
    /\ iflag = 0
    /\ mem = [a \in {} |-> <<0, 0>>]
    /\ handoff = [eax |-> eax, ebx |-> ebx, esp |-> esp]
    /\ loads = {}
    /\ args = <<>>
    /\ str = <<0>>
    /\ i = 0
    /\ VideoMemory = [k \in Cells |-> 1824]
    /\ prior = VideoMemory
    /\ writes = <<>>
    /\ said = <<>>
    /\ printfCalls = 0
    /\ printfRet = "none"
    /\ invoked = <<>>
    /\ reads = {}
    /\ ccRuns = 0
    /\ order = <<>>

\* one call of callConstructors, for every image and table
InitCtors ==
    /\ pc = "callConstructors"
    /\ Quiet
    /\ NoLink
    /\ image \in Images
    /\ table \in TablesOf(image)
    /\ cur = 0
    /\ flags = FLAGS
    /\ section = Long(MAGIC) \o Long(flags) \o Long(CHECKSUM)

NextCtors ==
    \/ CtorsEnter
    \/ CtorsCall
    \/ CtorsInc
    \/ CtorsReturn

SpecCtors == InitCtors /\ [][NextCtors]_vars

FairSpecCtors == SpecCtors /\ WF_vars(NextCtors)

(***************************************************************************)
(* Assembling section .multiboot, for every FLAGS word                     *)
(***************************************************************************)
InitHeader ==
    /\ pc = "long_MAGIC"
    /\ Quiet
    /\ NoLink
    /\ image = Link(64, 0, 0)
    /\ table = [a \in {} |-> "none"]
    /\ cur = 0
    /\ flags \in FlagValues
    /\ section = <<>>

NextHeader ==
    \/ LongMAGIC
    \/ LongFLAGS
    \/ LongCHECKSUM

SpecHeader == InitHeader /\ [][NextHeader]_vars

(***************************************************************************)
(* The link of mykernel.bin: ld places the input sections of loader.o and  *)
(* kernel.o as the statements of the linker script direct                   *)
(***************************************************************************)
\* an input section of an object file
Sec(obj, base, suffix, prio, size, align, nobits, class) ==
    [obj |-> obj, base |-> base, suffix |-> suffix, prio |-> prio, size |-> size,
     align |-> align, nobits |-> nobits, class |-> class]

\* loader.s: the header, the trampoline, and .space 2 MiB of .bss
LoaderO ==
    << Sec("loader.o", ".multiboot", "", 0, HEADER_SIZE, 1, FALSE, "ro"),
       Sec("loader.o", ".text", "", 0, LOADER_TEXT, 1, FALSE, "ro"),
       Sec("loader.o", ".bss", "", 0, STACK_SIZE, 1, TRUE, "zero") >>

\* kernel_stack is the label after the .space
KernelStackOffset_BeforeSpace == STACK_SIZE - STACK_SIZE
KernelStackOffset == STACK_SIZE

\* init priorities a translation unit may give its global objects
Priorities  == {101, 65535}
PrioSuffix  == (101 :> ".00101") @@ (65535 :> ".65535")
BssSizes    == {0, 16}
FrameSizes  == {0, 88}

RECURSIVE SetToSeq(_)
SetToSeq(S) ==
    IF S = {} THEN <<>>
    ELSE LET x == CHOOSE y \in S : \A z \in S : y >= z
         IN  Append(SetToSeq(S \ {x}), x)

NonEmpty(secs) == SelectSeq(secs, LAMBDA s : s.size > 0)

\* what g++ emits for kernel.cpp: code, the string literal, one .init_array
\* of the constructors without priority and one .init_array.NNNNN for each
\* priority, data, bss, unwind tables and the compiler's comment
KernelO(textSize, nCtors, prios, dataSize, bssSize, frameSize) ==
    NonEmpty(
      << Sec("kernel.o", ".text", "", 0, textSize, 1, FALSE, "ro"),
         Sec("kernel.o", ".rodata", "", 0, Len(Message) + 1, SLOT, FALSE, "ro") >>
      \o [k \in 1..Cardinality(prios) |->
            Sec("kernel.o", ".init_array", PrioSuffix[SetToSeq(prios)[k]],
                SetToSeq(prios)[k], SLOT, SLOT, FALSE, "rw")]
      \o << Sec("kernel.o", ".init_array", "", 0, SLOT * nCtors, SLOT, FALSE, "rw"),
            Sec("kernel.o", ".data", "", 0, dataSize, SLOT, FALSE, "rw"),
            Sec("kernel.o", ".bss", "", 0, bssSize, SLOT, TRUE, "zero"),
            Sec("kernel.o", ".eh_frame", "", 0, frameSize, SLOT, FALSE, "ro"),
            Sec("kernel.o", ".comment", "", 0, SLOT, 1, FALSE, "none") >>)

\* objects = loader.o kernel.o
Objects ==
    {LoaderO \o KernelO(t, n, p, d, b, f) :
        t \in KernelTextSizes, n \in 0..MaxCtors, p \in SUBSET Priorities,
        d \in DataSizes, b \in BssSizes, f \in FrameSizes}

\* a statement of the linker script
Stmt(op, out, base, star, sort, name, value) ==
    [op |-> op, out |-> out, base |-> base, star |-> star, sort |-> sort,
     name |-> name, value |-> value]

Script_TextFirst ==
    << Stmt("dot", "", "", FALSE, FALSE, "", LOAD_ADDRESS),
       Stmt("open", ".text", "", FALSE, FALSE, "", 0),
       Stmt("place", ".text", ".text", TRUE, FALSE, "", 0),
       Stmt("place", ".text", ".multiboot", FALSE, FALSE, "", 0),
       Stmt("place", ".text", ".rodata", TRUE, FALSE, "", 0),
       Stmt("open", ".data", "", FALSE, FALSE, "", 0),
       Stmt("symbol", ".data", "", FALSE, FALSE, "start_ctors", 0),
       Stmt("place", ".data", ".init_array", FALSE, FALSE, "", 0),
       Stmt("place", ".data", ".init_array", FALSE, TRUE, "", 0),
       Stmt("symbol", ".data", "", FALSE, FALSE, "end_ctors", 0),
       Stmt("place", ".data", ".data", TRUE, FALSE, "", 0),
       Stmt("open", ".bss", "", FALSE, FALSE, "", 0),
       Stmt("place", ".bss", ".bss", TRUE, FALSE, "", 0),
       Stmt("discard", "/DISCARD/", ".comment", FALSE, FALSE, "", 0) >>
Script_BssBeforeData ==
    << Stmt("dot", "", "", FALSE, FALSE, "", LOAD_ADDRESS),
       Stmt("open", ".text", "", FALSE, FALSE, "", 0),
       Stmt("place", ".text", ".multiboot", FALSE, FALSE, "", 0),
       Stmt("place", ".text", ".text", TRUE, FALSE, "", 0),
       Stmt("place", ".text", ".rodata", TRUE, FALSE, "", 0),
       Stmt("open", ".bss", "", FALSE, FALSE, "", 0),
       Stmt("place", ".bss", ".bss", TRUE, FALSE, "", 0),
       Stmt("open", ".data", "", FALSE, FALSE, "", 0),
       Stmt("symbol", ".data", "", FALSE, FALSE, "start_ctors", 0),
       Stmt("place", ".data", ".init_array", FALSE, FALSE, "", 0),
       Stmt("place", ".data", ".init_array", FALSE, TRUE, "", 0),
       Stmt("symbol", ".data", "", FALSE, FALSE, "end_ctors", 0),
       Stmt("place", ".data", ".data", TRUE, FALSE, "", 0),
       Stmt("discard", "/DISCARD/", ".comment", FALSE, FALSE, "", 0) >>
\* SECTIONS { . = 0x00100000; .text : {...} .data : {...} .bss : {...}
\* /DISCARD/ : {...} }
Script ==
    << Stmt("dot", "", "", FALSE, FALSE, "", LOAD_ADDRESS),
       Stmt("open", ".text", "", FALSE, FALSE, "", 0),
       Stmt("place", ".text", ".multiboot", FALSE, FALSE, "", 0),
       Stmt("place", ".text", ".text", TRUE, FALSE, "", 0),
       Stmt("place", ".text", ".rodata", TRUE, FALSE, "", 0),
       Stmt("open", ".data", "", FALSE, FALSE, "", 0),
       Stmt("symbol", ".data", "", FALSE, FALSE, "start_ctors", 0),
       Stmt("place", ".data", ".init_array", FALSE, FALSE, "", 0),
       Stmt("place", ".data", ".init_array", FALSE, TRUE, "", 0),
       Stmt("symbol", ".data", "", FALSE, FALSE, "end_ctors", 0),
       Stmt("place", ".data", ".data", TRUE, FALSE, "", 0),
       Stmt("open", ".bss", "", FALSE, FALSE, "", 0),
       Stmt("place", ".bss", ".bss", TRUE, FALSE, "", 0),
       Stmt("discard", "/DISCARD/", ".comment", FALSE, FALSE, "", 0) >>

\* an input-section pattern: the name itself, or the name followed by anything
Matches(stmt, s) ==
    /\ stmt.op \in {"place", "discard"}
    /\ s.base = stmt.base
    /\ stmt.star \/ s.suffix = ""

\* the first statement that names the section; 0 for an orphan
Assigned(s) ==
    IF \E k \in 1..Len(Script) : Matches(Script[k], s)
    THEN CHOOSE k \in 1..Len(Script) :
            /\ Matches(Script[k], s)
            /\ \A j \in 1..(k - 1) : ~ Matches(Script[j], s)
    ELSE 0

AlignUp(a, n) == ((a + n - 1) \div n) * n

\* an output section starts at the strictest alignment of its input sections
MaxAlign(out) ==
    LET A == {inputs[k].align : k \in {j \in 1..Len(inputs) :
                  Assigned(inputs[j]) # 0 /\ Script[Assigned(inputs[j])].out = out}}
    IN  IF A = {} THEN 1 ELSE CHOOSE a \in A : \A b \in A : a >= b

\* SORT_BY_INIT_PRIORITY: ascending by the number that ends the name
RECURSIVE InsertByPrio(_, _)
InsertByPrio(s, sorted) ==
    IF sorted = <<>> THEN <<s>>
    ELSE IF s.prio < Head(sorted).prio THEN <<s>> \o sorted
    ELSE <<Head(sorted)>> \o InsertByPrio(s, Tail(sorted))
RECURSIVE SortByInitPriority(_)
SortByInitPriority(secs) ==
    IF secs = <<>> THEN <<>>
    ELSE InsertByPrio(secs[Len(secs)], SortByInitPriority(SubSeq(secs, 1, Len(secs) - 1)))

\* input sections go one after the other, each at its own alignment
RECURSIVE PlaceAll(_, _, _)
PlaceAll(secs, d, out) ==
    IF secs = <<>> THEN <<>>
    ELSE LET a == AlignUp(d, Head(secs).align)
         IN  <<[sec |-> Head(secs), addr |-> a, out |-> out]>>
             \o PlaceAll(Tail(secs), a + Head(secs).size, out)
EndOf(ps, d) == IF ps = <<>> THEN d ELSE ps[Len(ps)].addr + ps[Len(ps)].sec.size

\* the output section the script is in, and the kind of orphan put after it
CurOut == IF ip <= 1 THEN "" ELSE Script[ip - 1].out
Leaving == IF ip > Len(Script) THEN TRUE ELSE Script[ip].out # CurOut
ClassAfter ==
    (".text" :> "ro") @@ (".data" :> "rw") @@ (".bss" :> "zero") @@ ("" :> "none")
    @@ ("/DISCARD/" :> "none")
IsPlaced(s) == \E k \in 1..Len(placed) : placed[k].sec = s
Orphans ==
    SelectSeq(inputs, LAMBDA s : /\ Assigned(s) = 0
                                 /\ s.class = ClassAfter[CurOut]
                                 /\ s.class # "none"
                                 /\ ~ IsPlaced(s))
Running == pc = "link" /\ ip <= Len(Script) /\ ~ (Leaving /\ Orphans # <<>>)

linkRest == <<cpuVars, printfVars, ctorVars, order, headerVars>>

\* . = 0x00100000;
LinkAssignDot ==
    /\ Running
    /\ Script[ip].op = "dot"
    /\ dot' = Script[ip].value
    /\ ip' = ip + 1
    /\ UNCHANGED <<pc, image, inputs, placed, syms, linkRest>>

\* .text : {   .data : {   .bss : {
LinkOpen ==
    /\ Running
    /\ Script[ip].op = "open"
    /\ dot' = AlignUp(dot, MaxAlign(Script[ip].out))
    /\ syms' = syms @@ (Script[ip].out :> dot')
    /\ ip' = ip + 1
    /\ UNCHANGED <<pc, image, inputs, placed, linkRest>>

\* *(.multiboot)  *(.text*)  KEEP(*(.init_array))  ...
LinkPlace ==
    /\ Running
    /\ Script[ip].op = "place"
    /\ LET named == SelectSeq(inputs, LAMBDA s : Assigned(s) = ip)
           secs  == IF Script[ip].sort THEN SortByInitPriority(named) ELSE named
           ps    == PlaceAll(secs, dot, Script[ip].out)
       IN  /\ placed' = placed \o ps
           /\ dot' = EndOf(ps, dot)
    /\ ip' = ip + 1
    /\ UNCHANGED <<pc, image, inputs, syms, linkRest>>

\* start_ctors = .;   end_ctors = .;
LinkSymbol ==
    /\ Running
    /\ Script[ip].op = "symbol"
    /\ syms' = syms @@ (Script[ip].name :> dot)
    /\ ip' = ip + 1
    /\ UNCHANGED <<pc, image, dot, inputs, placed, linkRest>>

\* /DISCARD/ : { *(.comment) }
LinkDiscard ==
    /\ Running
    /\ Script[ip].op = "discard"
    /\ inputs' = SelectSeq(inputs, LAMBDA s : Assigned(s) # ip)
    /\ ip' = ip + 1
    /\ UNCHANGED <<pc, image, dot, placed, syms, linkRest>>

\* sections no statement names follow the output section of their kind
LinkOrphans ==
    /\ pc = "link"
    /\ Leaving
    /\ Orphans # <<>>
    /\ LET ps == PlaceAll(Orphans, dot, "orphan")
       IN  /\ placed' = placed \o ps
           /\ dot' = EndOf(ps, dot)
    /\ UNCHANGED <<pc, image, ip, inputs, syms, linkRest>>

\* where the link put a section of an object
PlacedAt(obj, base) ==
    (CHOOSE p \in {placed[k] : k \in 1..Len(placed)} :
        p.sec.obj = obj /\ p.sec.base = base /\ p.sec.suffix = "").addr

\* the symbols of the image are resolved
LinkEnd ==
    /\ pc = "link"
    /\ ip > Len(Script)
    /\ Orphans = <<>>
    /\ image' = [multiboot    |-> PlacedAt("loader.o", ".multiboot"),
                 loader       |-> PlacedAt("loader.o", ".text"),
                 start_ctors  |-> syms["start_ctors"],
                 end_ctors    |-> syms["end_ctors"],
                 bss          |-> PlacedAt("loader.o", ".bss"),
                 kernel_stack |-> PlacedAt("loader.o", ".bss") + KernelStackOffset]
    /\ pc' = "linked"
    /\ UNCHANGED <<ip, dot, inputs, placed, syms, linkRest>>

InitLink ==
    /\ pc = "link"
    /\ Quiet
    /\ ip = 1
    /\ dot = 0
    /\ inputs \in Objects
    /\ placed = <<>>
    /\ syms = <<>>
    /\ image = Link(64, 0, 0)
    /\ table = [a \in {} |-> "none"]
    /\ cur = 0
    /\ flags = FLAGS
    /\ section = <<>>

NextLink ==
    \/ LinkAssignDot
    \/ LinkOpen
    \/ LinkPlace
    \/ LinkSymbol
    \/ LinkDiscard
    \/ LinkOrphans
    \/ LinkEnd

SpecLink == InitLink /\ [][NextLink]_vars

(***************************************************************************)
(* printf called on its own, for every string and prior screen             *)
(***************************************************************************)
MaxLen == 3
Chars  == {1, 65, 127, 128, 255}          \* non-zero values of a char

RECURSIVE StringsOfLen(_)
StringsOfLen(n) ==
    IF n = 0 THEN {<<>>}
    ELSE {Append(t, c) : t \in StringsOfLen(n - 1), c \in Chars}
\* the null-terminated strings of up to MaxLen characters
CStrings == {t \o <<0>> : t \in UNION {StringsOfLen(n) : n \in 0..MaxLen}}

\* a caller passes str; printf starts with int i = 0
CallPrintfArg ==
    /\ pc = "call_printf"
    /\ i' = 0
    /\ printfCalls' = printfCalls + 1
    /\ printfRet' = "printf_returned"
    /\ prior' = VideoMemory
    /\ writes' = <<>>
    /\ said' = Append(said, str)
    /\ pc' = "printf"
    /\ UNCHANGED <<cpuVars, str, VideoMemory, ctorVars, linkVars, order,
                   headerVars>>

InitPrintf ==
    /\ pc = "call_printf"
    /\ eax = <<0, 0>>
    /\ ebx = <<0, 0>>
    /\ esp = <<0, 0>>
    /\ iflag = 0
    /\ mem = [a \in {} |-> <<0, 0>>]
    /\ handoff = [eax |-> eax, ebx |-> ebx, esp |-> esp]
    /\ loads = {}
    /\ args = <<>>
    /\ str \in CStrings
    /\ i = 0
    /\ \E c \in InitialCells : VideoMemory = [k \in Cells |-> c]
    /\ prior = VideoMemory
    /\ writes = <<>>
    /\ said = <<>>
    /\ printfCalls = 0
    /\ printfRet = "none"
    /\ NoLink
    /\ image = Link(64, 0, 0)
    /\ table = [a \in {} |-> "none"]
    /\ cur = 0
    /\ invoked = <<>>
    /\ reads = {}
    /\ ccRuns = 0
    /\ order = <<>>
    /\ flags = FLAGS
    /\ section = Long(MAGIC) \o Long(flags) \o Long(CHECKSUM)

NextPrintf ==
    \/ CallPrintfArg
    \/ PrintfStep
    \/ PrintfReturn

SpecPrintf == InitPrintf /\ [][NextPrintf]_vars

(***************************************************************************)
(* printf called twice in a row: printf(s); printf(t);                     *)
(***************************************************************************)
\* the strings the second call is given, besides the first call's own
LaterStrings == {t \in CStrings : \A k \in 1..Len(t) : t[k] \in {0, 65, 255}}

\* the caller's second call; i is a local of printf, initialised at each call
CallPrintfAgain_KeepsCursor ==
    /\ pc = "printf_returned"
    /\ str' \in {str} \cup LaterStrings
    /\ printfCalls' = printfCalls + 1
    /\ printfRet' = "printf_returned_twice"
    /\ prior' = VideoMemory
    /\ writes' = <<>>
    /\ said' = Append(said, str')
    /\ pc' = "printf"
    /\ UNCHANGED <<cpuVars, i, VideoMemory, ctorVars, linkVars, order, headerVars>>
CallPrintfAgain ==
    /\ pc = "printf_returned"
    /\ str' \in {str} \cup LaterStrings
    /\ i' = 0
    /\ printfCalls' = printfCalls + 1
    /\ printfRet' = "printf_returned_twice"
    /\ prior' = VideoMemory
    /\ writes' = <<>>
    /\ said' = Append(said, str')
    /\ pc' = "printf"
    /\ UNCHANGED <<cpuVars, VideoMemory, ctorVars, linkVars, order, headerVars>>

NextTwice ==
    \/ CallPrintfArg
    \/ PrintfStep
    \/ PrintfReturn
    \/ CallPrintfAgain

SpecTwice == InitPrintf /\ [][NextTwice]_vars

(***************************************************************************)
(* Properties                                                              *)
(***************************************************************************)
\* the invocations one run over the table must make: every slot once, ascending
ExpectedCalls ==
    [k \in 1..((end_ctors - start_ctors) \div SLOT) |->
        <<start_ctors + SLOT * (k - 1), table[start_ctors + SLOT * (k - 1)]>>]

\* C1: when the first instruction of kernelMain executes, callConstructors has
\* run exactly once and completed, having called every slot of the table, and
\* the routines were entered in the order loader, callConstructors, kernelMain.
C1_CtorsBeforeKernelMain ==
    pc = "kernelMain" =>
        /\ ccRuns = 1
        /\ invoked = ExpectedCalls
        /\ order = <<"loader", "callConstructors">>

\* C2: one call of callConstructors invokes each of the N slots exactly once,
\* in ascending address order, and then returns; with N = 0 it invokes nothing
\* and returns.
C2_EachSlotOnceAscending ==
    /\ [](pc = "ctors_returned" => (invoked = ExpectedCalls /\ ccRuns = 1))
    /\ [](pc # "ctors_returned" => ccRuns = 0)
    /\ <>(pc = "ctors_returned")

C2_Witness ==
    /\ pc = "ctors_returned"
    /\ Len(invoked) >= 2
    /\ invoked[1][2] # invoked[2][2]

\* C3 as stated: at the first instruction of kernelMain ESP equals the address
\* of the kernel_stack label.
C3_EspIsStackTop ==
    pc = "kernelMain" => esp = FromInt(kernel_stack)

\* C3 amended: at the first instruction of kernelMain ESP is 12 bytes below the
\* kernel_stack label: the trampoline set it to that label and then pushed
\* EAX, EBX and the return address, 4 bytes each.
C3_EspTwelveBelowTop ==
    pc = "kernelMain" => esp = FromInt(kernel_stack - 12)

C3_Witness ==
    /\ pc = "kernelMain"
    /\ esp = FromInt(kernel_stack - 12)
    /\ handoff.esp # esp

\* C4: no trampoline instruction before the call changes EAX or EBX, and
\* kernelMain's first parameter is the EBX value of loader entry and its second
\* parameter the EAX value.
C4_ArgumentsForwarded ==
    /\ pc \in {"loader", "push_eax", "push_ebx", "call_kernelMain", "kernelMain"}
          => (eax = handoff.eax /\ ebx = handoff.ebx)
    /\ args # <<>> => args = <<handoff.ebx, handoff.eax>>

C4_Witness ==
    /\ args = <<handoff.ebx, handoff.eax>>
    /\ handoff.eax = <<11181, 45058>>
    /\ handoff.ebx # handoff.eax

\* C5: once kernelMain has returned, control is in the _stop loop for good:
\* the return lands on _stop, hlt is entered only from cli and with interrupts
\* disabled, a wake-up goes to jmp _stop and from there to _stop, and no step
\* leaves {cli, hlt, jmp _stop}.
StopLoop == {"_stop", "hlt", "halted", "jmp_stop"}

C5_HaltLoopForever ==
    [][/\ (pc = "while1" /\ pc' # pc) => pc' = "_stop"
       /\ pc \in StopLoop => pc' \in StopLoop
       /\ pc' = "hlt" => (pc = "_stop" /\ iflag' = 0)
       /\ pc' = "halted" => (pc = "hlt" /\ iflag' = 0)
       /\ pc = "halted" => pc' = "jmp_stop"
       /\ pc = "jmp_stop" => pc' = "_stop"]_vars

C5_Witness ==
    /\ pc = "jmp_stop"
    /\ iflag = 0
    /\ esp = FromInt(kernel_stack - 8)

\* the low byte (character) of a cell
CharOf(cell) == cell % W8

\* the message is on the screen: cell k shows character k of it
MessageShown ==
    \A k \in 0..(Len(Message) - 1) : CharOf(VideoMemory[k]) = Message[k + 1]

\* C6: once kernelMain has emitted the message it stays in its terminal loop:
\* it never returns to the trampoline and stores nothing more.
C6_NeverLeavesLoop ==
    [][pc = "while1" =>
          /\ pc' = "while1"
          /\ VideoMemory' = VideoMemory
          /\ mem' = mem
          /\ esp' = esp]_vars

C6_Witness ==
    /\ pc = "while1"
    /\ MessageShown

\* C7: kernelMain, once entered, emits the fixed message exactly once and then
\* reaches its terminal loop, which it never leaves; it is in no other state.
C7_TwoStateMachine ==
    /\ [](printfCalls <= 1)
    /\ [](pc = "printf" => (str = Message \o <<0>> /\ printfCalls = 1))
    /\ [](pc = "while1" => (printfCalls = 1 /\ MessageShown /\ i = Len(Message)))
    /\ [](args # <<>> => pc \in {"kernelMain_printf", "printf", "while1"})
    /\ [][pc = "while1" => pc' = "while1"]_vars
    /\ (pc = "kernelMain" ~> pc = "while1")

C7_Witness ==
    /\ pc = "while1"
    /\ printfCalls = 1
    /\ MessageShown
    /\ VideoMemory[0] = 20040          \* 0x4E48: attribute 0x4E kept, 'H'

\* C8: the three 32-bit words of the assembled header sum to zero modulo 2^32,
\* for every FLAGS word.
C8_HeaderSumsToZero ==
    pc = "assembled" =>
        /\ Len(section) = HEADER_SIZE
        /\ Word(section, 0) = MAGIC
        /\ Word(section, 1) = flags
        /\ Add32(Add32(Word(section, 0), Word(section, 1)), Word(section, 2)) = <<0, 0>>

\* a FLAGS word for which MAGIC + FLAGS exceeds 32 bits
C8_Witness ==
    /\ pc = "assembled"
    /\ flags[1] > W16 - 1 - MAGIC[1]
    /\ Add32(Add32(Word(section, 0), Word(section, 1)), Word(section, 2)) = <<0, 0>>

\* C9: with the FLAGS the source declares (bit 0 | bit 1 = 3) the header is the
\* 12 bytes 02 B0 AD 1B, 03 00 00 00, FB 4F 52 E4.
C9_DeclaredHeaderBytes ==
    /\ FLAGS = <<0, 3>>
    /\ (pc = "assembled" /\ flags = FLAGS) =>
           section = <<2, 176, 173, 27, 3, 0, 0, 0, 251, 79, 82, 228>>

C9_Witness ==
    /\ pc = "assembled"
    /\ flags = FLAGS
    /\ Len(section) = 12

\* an address inside the Reserved Stack Region [bss, bss + 2 MiB)
InStack(w) ==
    /\ Le32(FromInt(image.bss), w)
    /\ Le32(w, FromInt(image.bss + STACK_SIZE - 1))

\* C10: the trampoline's first instruction sets ESP to the top of the Reserved
\* Stack Region (its base + 2 MiB) and touches no memory, and every later step
\* that moves ESP or stores to the stack does so inside the region.
C10_EspSetBeforeStackUse ==
    [][/\ pc = "loader" =>
             /\ esp' = FromInt(image.bss + STACK_SIZE)
             /\ mem' = mem
       /\ (mem' # mem \/ esp' # esp) /\ pc # "loader" =>
             /\ InStack(esp')
             /\ \A a \in DOMAIN mem' : InStack(a)]_vars

C10_Witness ==
    /\ pc = "push_ebx"
    /\ esp = FromInt(kernel_stack - 4)
    /\ handoff.esp # FromInt(kernel_stack)
    /\ mem[esp] = handoff.eax

\* the attribute (high byte) of a cell
AttrOf(cell) == cell \div W8

\* C11: after printf(str), each cell k below the string's length has its prior
\* attribute byte and shows character k of the string.
C11_AttributePreserved ==
    pc = "printf_returned" =>
        \A k \in 0..(Len(str) - 2) :
            /\ AttrOf(VideoMemory[k]) = AttrOf(prior[k])
            /\ CharOf(VideoMemory[k]) = CharAt(str, k)

\* C19: printf stores to the cells 0, 1, ..., L-1 once each in that order, L the
\* string's length, and to nothing else: every other cell keeps its content,
\* the cell at the terminating null included.
C19_WritesExactlyPrefix ==
    pc \in {"printf", "printf_returned"} =>
        /\ writes = [k \in 1..Len(writes) |-> k - 1]
        /\ Len(writes) = i
        /\ pc = "printf_returned" => i = Len(str) - 1
        /\ \A k \in Cells : k >= i => VideoMemory[k] = prior[k]

C19_Witness ==
    /\ pc = "printf_returned"
    /\ Len(str) >= 3
    /\ writes = <<0, 1>>
    /\ VideoMemory[0] # prior[0]
    /\ VideoMemory[2] = prior[2]

\* C14: the interrupt-enable flag is clear in every state of the boot, from the
\* hand-off through the trampoline and the entry routine to its terminal loop.
C14_InterruptsNeverEnabled ==
    iflag = 0

C14_Witness ==
    /\ pc = "while1"
    /\ iflag = 0
    /\ printfCalls = 1

\* what printf(Message) leaves on a screen
ScreenAfterMessage(before) ==
    [k \in Cells |->
        IF k < Len(Message) THEN PutChar(before[k], Message[k + 1]) ELSE before[k]]

\* C15: the output and the terminal state do not depend on EAX and EBX of the
\* hand-off: the string printed is the fixed message, the terminal screen is
\* that message over the prior screen, and the word the boot-information
\* pointer refers to is neither read nor written.
C15_ArgumentsIgnored ==
    /\ str \in {<<0>>, Message \o <<0>>}
    /\ handoff.ebx \notin loads
    /\ handoff.ebx \notin DOMAIN mem
    /\ args # <<>> => pc \in {"kernelMain_printf", "printf", "while1"}
    /\ pc = "while1" =>
          /\ VideoMemory = ScreenAfterMessage(prior)
          /\ printfCalls = 1
          /\ i = Len(Message)

C15_Witness ==
    /\ pc = "while1"
    /\ handoff.eax = <<0, 0>>
    /\ handoff.ebx = <<65535, 65535>>
    /\ VideoMemory = ScreenAfterMessage(prior)

\* the number of steps of the boot that are possible in the current state
EnabledSteps ==
    (IF ENABLED MovEsp THEN 1 ELSE 0) + (IF ENABLED PushEax THEN 1 ELSE 0)
    + (IF ENABLED PushEbx THEN 1 ELSE 0) + (IF ENABLED CallKernelMain THEN 1 ELSE 0)
    + (IF ENABLED KernelMainEntry THEN 1 ELSE 0) + (IF ENABLED CallPrintf THEN 1 ELSE 0)
    + (IF ENABLED PrintfStep THEN 1 ELSE 0) + (IF ENABLED PrintfReturn THEN 1 ELSE 0)
    + (IF ENABLED While1 THEN 1 ELSE 0)

\* C16: the boot is deterministic: in every state exactly one step of the boot
\* is possible, and the terminal state is one function of the image, the
\* hand-off and the initial screen.
C16_Deterministic ==
    /\ EnabledSteps = 1
    /\ pc = "while1" =>
          /\ VideoMemory = ScreenAfterMessage(prior)
          /\ prior \in {[k \in Cells |-> c] : c \in InitialCells}
          /\ esp = FromInt(kernel_stack - 12)
          /\ mem = (FromInt(kernel_stack - 4) :> handoff.eax)
                    @@ (FromInt(kernel_stack - 8) :> handoff.ebx)
                    @@ (FromInt(kernel_stack - 12) :> FromInt(AddrOf("_stop")))
          /\ eax = handoff.eax
          /\ ebx = handoff.ebx
          /\ args = <<handoff.ebx, handoff.eax>>
          /\ i = Len(Message)
          /\ writes = [k \in 1..Len(Message) |-> k - 1]
          /\ printfCalls = 1
          /\ iflag = 0
          /\ order = <<"loader", "kernelMain">>

C16_Witness ==
    /\ pc = "while1"
    /\ VideoMemory = ScreenAfterMessage(prior)
    /\ ENABLED NextBoot
    /\ order = <<"loader", "kernelMain">>

\* C20: callConstructors dereferences only slots inside [start_ctors,
\* end_ctors), never writes the table, and leaves its loop only with the cursor
\* equal to end_ctors.
C20_ReadsOnlyTheTable ==
    /\ [](reads \subseteq SlotsOf(image))
    /\ [](\A a \in reads : start_ctors <= a /\ a < end_ctors)
    /\ [](pc = "ctors_returned" => cur = end_ctors)
    /\ [][table' = table]_vars
    /\ [][(pc = "ctors_test" /\ pc' # "ctors_test" /\ cur # end_ctors)
             => pc' = "ctors_inc"]_vars

C20_Witness ==
    /\ pc = "ctors_returned"
    /\ reads = SlotsOf(image)
    /\ Cardinality(reads) = 2
    /\ cur = end_ctors

\* the placements of the link, and the end of one
PlacedSet == {placed[k] : k \in 1..Len(placed)}
End(p) == p.addr + p.sec.size
\* GRUB scans the first 8192 bytes of the image for the header
SEARCH_WINDOW == 8192

\* C12: the .multiboot section of loader.o is the first content placed, at
\* 0x00100000, everything else lies after it, and the header ends within the
\* first 8192 bytes of the image whatever follows.
C12_HeaderFirstInImage ==
    /\ placed # <<>> =>
          /\ placed[1].sec = LoaderO[1]
          /\ placed[1].addr = LOAD_ADDRESS
          /\ End(placed[1]) = LOAD_ADDRESS + HEADER_SIZE
          /\ End(placed[1]) - LOAD_ADDRESS <= SEARCH_WINDOW
          /\ \A k \in 2..Len(placed) : placed[k].addr >= End(placed[1])
    /\ pc = "linked" =>
          /\ placed # <<>>
          /\ image.multiboot = LOAD_ADDRESS

C12_Witness ==
    /\ pc = "linked"
    /\ image.multiboot = LOAD_ADDRESS
    /\ dot - LOAD_ADDRESS > SEARCH_WINDOW
    /\ \E p \in PlacedSet : p.out = "orphan" /\ p.sec.class = "ro"
    /\ syms["end_ctors"] > syms["start_ctors"]
    /\ \E p \in PlacedSet : p.sec.obj = "kernel.o" /\ p.sec.base = ".bss"

\* C13: the range [kernel_stack - 2 MiB, kernel_stack) is the .space of
\* loader.o's .bss and no other placed section, nor the constructor table,
\* overlaps it.
C13_StackRegionDisjoint ==
    pc = "linked" =>
        LET top == image.kernel_stack
            lo  == top - STACK_SIZE
        IN  /\ \E p \in PlacedSet : p.sec = LoaderO[3] /\ p.addr = lo /\ End(p) = top
            /\ \A p \in PlacedSet :
                  (p.sec # LoaderO[3] /\ p.sec.size > 0) => (End(p) <= lo \/ p.addr >= top)
            /\ syms["end_ctors"] <= lo \/ syms["start_ctors"] >= top

C13_Witness ==
    /\ pc = "linked"
    /\ \E p \in PlacedSet :
          p.sec.obj = "kernel.o" /\ p.sec.base = ".bss" /\ p.addr = image.kernel_stack
    /\ \E p \in PlacedSet : p.sec.base = ".data" /\ End(p) = image.kernel_stack - STACK_SIZE
    /\ syms["end_ctors"] > syms["start_ctors"]

\* the constructor sections of the input objects, and their pointers
CtorSections == {inputs[k] : k \in {j \in 1..Len(inputs) : inputs[j].base = ".init_array"}}
RECURSIVE SumSizes(_)
SumSizes(S) ==
    IF S = {} THEN 0
    ELSE LET s == CHOOSE x \in S : TRUE IN s.size + SumSizes(S \ {s})

\* C17: the table between start_ctors and end_ctors is a contiguous array of
\* 4-byte slots that holds every constructor pointer of the input sections
\* exactly once, and nothing else.
C17_TableHoldsEveryCtorOnce ==
    pc = "linked" =>
        LET start == syms["start_ctors"]
            end   == syms["end_ctors"]
        IN  /\ end >= start
            /\ (end - start) % SLOT = 0
            /\ end - start = SumSizes(CtorSections)
            /\ \A s \in CtorSections :
                  /\ Cardinality({k \in 1..Len(placed) : placed[k].sec = s}) = 1
                  /\ \A p \in PlacedSet :
                        p.sec = s => (start <= p.addr /\ End(p) <= end)
            /\ \A p \in PlacedSet :
                  (p.sec.size > 0 /\ p.addr < end /\ End(p) > start)
                      => p.sec.base = ".init_array"

\* the order of the input sections inside .text
TextRank == (".multiboot" :> 1) @@ (".text" :> 2) @@ (".rodata" :> 3)

\* C18: .text starts at 0x00100000 and holds the header, then the code, then
\* the read-only data; .data follows with the constructor table and then the
\* data; .bss follows, nothing is placed after its start but its own
\* sections, the stack is in it and its sections have no bytes in the file;
\* no two placements overlap.
C18_AscendingLayout ==
    pc = "linked" =>
        LET T == syms[".text"]
            D == syms[".data"]
            B == syms[".bss"]
            In(o) == {p \in PlacedSet : p.out = o}
        IN  /\ T = LOAD_ADDRESS
            /\ T <= D /\ D <= B
            /\ \A p \in In(".text") : T <= p.addr /\ End(p) <= D
            /\ \A p, q \in In(".text") :
                  TextRank[p.sec.base] < TextRank[q.sec.base] => End(p) <= q.addr
            /\ \A p \in In(".data") : D <= p.addr /\ End(p) <= B
            /\ syms["start_ctors"] = D
            /\ \A p \in In(".data") :
                  IF p.sec.base = ".init_array"
                  THEN syms["start_ctors"] <= p.addr /\ End(p) <= syms["end_ctors"]
                  ELSE syms["end_ctors"] <= p.addr
            /\ \A p \in PlacedSet : p.out # ".bss" <=> End(p) <= B
            /\ \A p \in In(".bss") : p.sec.nobits
            /\ \A p \in PlacedSet : ~ p.sec.nobits => End(p) <= B
            /\ \E p \in In(".bss") : p.sec = LoaderO[3]
            /\ \A j, k \in 1..Len(placed) :
                  j < k => End(placed[j]) <= placed[k].addr

C18_Witness ==
    /\ pc = "linked"
    /\ syms[".text"] = LOAD_ADDRESS
    /\ syms[".text"] < syms["start_ctors"]
    /\ syms["start_ctors"] < syms["end_ctors"]
    /\ syms["end_ctors"] < syms[".bss"]
    /\ \E p \in PlacedSet : p.out = ".data" /\ p.sec.base = ".data"
    /\ \E p \in PlacedSet : p.out = ".bss" /\ p.sec.obj = "kernel.o"
    /\ dot > syms[".bss"] + STACK_SIZE

\* C21: printf keeps no cursor between calls: each call stores from cell 0
\* on, so the second call puts its characters over the cells the first call
\* left, and a second call with the same string leaves the screen as the
\* first call left it.
C21_NoCursorBetweenCalls ==
    /\ pc = "printf" => Len(writes) = i
    /\ pc = "printf_returned_twice" =>
          /\ Len(said) = 2
          /\ str = said[2]
          /\ writes = [k \in 1..(Len(str) - 1) |-> k - 1]
          /\ \A k \in Cells :
                VideoMemory[k] = IF k < Len(str) - 1
                                 THEN PutChar(prior[k], CharAt(str, k))
                                 ELSE prior[k]
          /\ said[1] = said[2] => VideoMemory = prior

C21_Witness ==
    /\ pc = "printf_returned_twice"
    /\ said[1] = said[2]
    /\ said[1] = <<65, 128, 255, 0>>
    /\ VideoMemory = prior
    /\ CharOf(VideoMemory[1]) = 128
    /\ writes = <<0, 1, 2>>

\* a second call with another string starts over the first call's output
C21_WitnessOverwrite ==
    /\ pc = "printf_returned_twice"
    /\ said = << <<1, 127, 128, 0>>, <<65, 0>> >>
    /\ CharOf(VideoMemory[0]) = 65
    /\ CharOf(VideoMemory[1]) = 127
    /\ VideoMemory # prior

\* the positions from the first instruction of kernelMain on
InKernelMain == {"kernelMain", "kernelMain_printf", "printf", "while1"}

\* C22: the halt path is never reached: control is never at _stop, hlt or
\* jmp _stop, and from the entry of kernelMain on the return address the call
\* pushed, the address of _stop, stays at the top of the stack and is never
\* read.
C22_HaltPathUnreachable ==
    /\ pc \notin StopLoop
    /\ pc # "wild"
    /\ pc \in InKernelMain =>
          /\ esp = FromInt(kernel_stack - 12)
          /\ Read(esp) = FromInt(AddrOf("_stop"))
    /\ FromInt(kernel_stack - 12) \notin loads

C22_Witness ==
    /\ pc = "while1"
    /\ MessageShown
    /\ Read(esp) = FromInt(AddrOf("_stop"))
    /\ loads = {FromInt(kernel_stack - 8), FromInt(kernel_stack - 4)}

====
